---- MODULE Spec2Model ----
(***************************************************************************)
(* Model of the Adaptation Engine of zaebee/hive:                          *)
(*   hive_physics/adaptation/aggregate.py  (the gate and its rollback)     *)
(*   hive_physics/adaptation/patcher.py    (git apply --check / git apply) *)
(*   hive_physics/adaptation/toxicity.py   (the toxicity score)            *)
(* The working tree is a map from paths to the bytes of the file; a file   *)
(* is a sequence of lines, every line a source token and its terminator.   *)
(***************************************************************************)
EXTENDS Integers, Sequences, FiniteSets, TLC

(* ------------------------------ bounds --------------------------------- *)

\* number of gate invocations a behaviour may start
MaxInvocations == 2

\* longest text, in lines, the scores are exact for (see ScoreDen)
MaxLines == 3

\* decision points of the widest line of a text (an "ifs" line: one
\* condition joining that many operands with and / or)
MaxBranches == 30

(* --------------------------- program constants ------------------------- *)

\* weights of calculate_toxicity_score, in tenths (2.0 and 0.1)
WEIGHT_COMPLEXITY == 20
WEIGHT_LOC == 1
\* complexity assigned when radon fails to parse
PenaltyComplexity == 25
\* complexity of code with no function and no method
DefaultComplexity == 1
\* factor of the raw line count when analyze raises SyntaxError
SyntaxErrorFactor == 2

(* ------------------------------ files ---------------------------------- *)

Paths == {"p1", "p2"}
Absent == << [tok |-> "absent", eol |-> "none"] >>
DevNull == "/dev/null"
None == << [tok |-> "None", eol |-> "none"] >>

\* Kinds of source line.  "def" opens a top-level function, "class" a class,
\* "method" a function in the body of the class above it; "if" is a line with
\* one decision point, "ifs" one with MaxBranches of them.  "badtok" is a
\* line the tokenizer cannot complete (an unclosed bracket), "badsyn" one that
\* tokenizes but does not parse.  "BIN" stands for bytes that are not valid
\* UTF-8.
TextToks == {"stmt", "def", "class", "method", "if", "ifs", "blank", "badsyn", "badtok"}
Eols == {"LF", "CRLF"}

L(t, e) == [tok |-> t, eol |-> e]

\* the file contents the working tree and the patches are built from
C_A     == << L("stmt", "LF") >>
C_Acrlf == << L("stmt", "CRLF") >>
C_B     == << L("def", "LF"), L("if", "LF") >>
C_Hot   == << L("def", "LF"), L("ifs", "LF") >>
C_Blank == << L("blank", "LF") >>
C_Bad   == << L("badsyn", "LF") >>
C_BIN   == << L("BIN", "LF") >>

TreeContents == {C_A, C_Acrlf, C_B, C_Hot}
PatchContents == {C_A, C_Acrlf, C_B, C_Blank, C_Bad}

(* ----------------------- Path.read_text / write_text ------------------- *)

\* read_text() decodes UTF-8 and raises UnicodeDecodeError on other bytes
Decodable(bytes) == \A i \in 1..Len(bytes) : bytes[i].tok # "BIN"

\* read_text() opens the file with newline=None: every line terminator is
\* translated to "\n"
ReadText(bytes) == [i \in 1..Len(bytes) |-> L(bytes[i].tok, "LF")]

\* write_text() encodes the string; "\n" is written as os.linesep ("\n")
WriteText(text) == text

(* ------------------------------ toxicity ------------------------------- *)

RECURSIVE Fact(_)
Fact(n) == IF n <= 1 THEN 1 ELSE n * Fact(n - 1)

\* scores are held in units of 1 / (10 * ScoreDen): the mean complexity of
\* up to MaxLines blocks is a whole number of them
ScoreDen == Fact(MaxLines)

RECURSIVE CountTok(_, _)
CountTok(text, toks) ==
  IF text = << >> THEN 0
  ELSE (IF Head(text).tok \in toks THEN 1 ELSE 0) + CountTok(Tail(text), toks)

\* code.strip() == ""
IsBlank(text) == \A i \in 1..Len(text) : text[i].tok = "blank"

\* ast.parse succeeds: no broken line, and every method stands in a class
Parses(text) ==
  \A i \in 1..Len(text) :
    /\ text[i].tok \notin {"badsyn", "badtok"}
    /\ text[i].tok = "method" => \E j \in 1..(i - 1) : text[j].tok = "class"

\* len(visitor.functions) + the len(cls.methods) of every class
NumBlocks(text) == CountTok(text, {"def"}) + CountTok(text, {"method"})

\* decision points of one line
Branches(tok) == IF tok = "if" THEN 1 ELSE IF tok = "ifs" THEN MaxBranches ELSE 0

\* sum of the blocks' complexities: 1 per block, and the decision points of
\* the lines inside one; a class line ends the function above it
RECURSIVE BranchesInBlocks(_, _)
BranchesInBlocks(text, inBlock) ==
  IF text = << >> THEN 0
  ELSE LET t == Head(text).tok
       IN (IF inBlock THEN Branches(t) ELSE 0)
          + BranchesInBlocks(Tail(text),
              IF t \in {"def", "method"} THEN TRUE
              ELSE IF t = "class" THEN FALSE ELSE inBlock)

TotalComplexity(text) == NumBlocks(text) + BranchesInBlocks(text, FALSE)

\* the mean without the test of code.strip()
calculate_average_complexity_NoStripTest(text) ==
  IF ~Parses(text) THEN PenaltyComplexity * ScoreDen
  ELSE IF NumBlocks(text) = 0 THEN DefaultComplexity * ScoreDen
  ELSE (TotalComplexity(text) * ScoreDen) \div NumBlocks(text)

\* calculate_average_complexity, times ScoreDen
calculate_average_complexity(text) ==
  IF IsBlank(text) THEN 0
  ELSE IF ~Parses(text) THEN PenaltyComplexity * ScoreDen
  ELSE IF NumBlocks(text) = 0 THEN DefaultComplexity * ScoreDen
  ELSE (TotalComplexity(text) * ScoreDen) \div NumBlocks(text)

\* radon.raw.analyze reads tokens, not the grammar: it raises SyntaxError
\* only when the tokens of a line cannot be completed
AnalyzeRaises(text) == \E i \in 1..Len(text) : text[i].tok = "badtok"

\* logical lines: one per non-blank line
Lloc(text) == CountTok(text, TextToks \ {"blank"})

calculate_lines_of_code(text) ==
  IF IsBlank(text) THEN 0
  ELSE IF AnalyzeRaises(text) THEN Len(text) * SyntaxErrorFactor
  ELSE Lloc(text)

\* the score with the two weights in each other's place
calculate_toxicity_score_SwappedWeights(text) ==
  calculate_average_complexity(text) * WEIGHT_LOC
    + calculate_lines_of_code(text) * WEIGHT_COMPLEXITY * ScoreDen

calculate_toxicity_score(text) ==
  calculate_average_complexity(text) * WEIGHT_COMPLEXITY
    + calculate_lines_of_code(text) * WEIGHT_LOC * ScoreDen

(* ------------------------------ patches -------------------------------- *)

\* pre-image of a hunk whose context matches no file of the tree
Stale == << [tok |-> "stale", eol |-> "none"] >>

\* One file section of a unified diff.  git: the section starts with a
\* "diff --git a/<x> b/<y>" line.  old, new: the paths of its "--- " and
\* "+++ " lines (DevNull on creation and deletion).  pre: the content its
\* hunks expect.  post: the content they produce.  A rename (old # new, both
\* paths) keeps the content and is written with git's extended headers.
IsRename(s) == s.old # DevNull /\ s.new # DevNull /\ s.old # s.new

Sec(g, o, n, pr, po) == [git |-> g, old |-> o, new |-> n, pre |-> pr, post |-> po]

\* the sections a caller can write against the tree img with contents cs:
\* a change of an existing file, a change whose context is stale, a
\* creation, a deletion.  The patch is a str written out as UTF-8: the lines
\* of a hunk are never the bytes of a file that does not decode.
PlainSections(img, cs, g) ==
  LET present == {p \in Paths : img[p] # Absent /\ Decodable(img[p])}
  IN  {s \in {Sec(g, p, p, img[p], po) : p \in present, po \in cs} : s.post # s.pre}
      \cup {Sec(g, p, p, Stale, C_A) : p \in Paths}
      \cup {Sec(g, DevNull, p, Absent, po) : p \in Paths, po \in cs}
      \cup {Sec(g, p, DevNull, img[p], Absent) : p \in present}

\* sections only git's own format can express: a rename, a binary change,
\* a binary file created
GitOnlySections(img) ==
  LET present == {p \in Paths : img[p] # Absent}
  IN  {Sec(TRUE, pq[1], pq[2], img[pq[1]], img[pq[1]]) :
         pq \in {x \in present \X Paths : x[1] # x[2]}}
      \cup {Sec(TRUE, p, p, img[p], C_BIN) : p \in present}
      \cup {Sec(TRUE, DevNull, p, Absent, C_BIN) : p \in Paths}

SectionsFor(img, cs) ==
  PlainSections(img, cs, FALSE) \cup PlainSections(img, cs, TRUE)
    \cup GitOnlySections(img)

\* "diff --git a/<x> b/<y>": git names the file on both sides, also when one
\* side of the section is /dev/null
GitA(s) == IF s.old = DevNull THEN s.new ELSE s.old
GitB(s) == IF s.new = DevNull THEN s.old ELSE s.new

\* the header lines of a section, in the order they stand in the patch text;
\* a pure rename has no "--- " and "+++ " line
HeaderLines(s) ==
  (IF s.git THEN << [k |-> "diffgit", a |-> GitA(s), b |-> GitB(s)] >> ELSE << >>)
  \o (IF IsRename(s) THEN << >>
      ELSE << [k |-> "minus", a |-> s.old, b |-> DevNull],
              [k |-> "plus", a |-> DevNull, b |-> s.new] >>)

RECURSIVE PatchLines(_)
PatchLines(patch) ==
  IF patch = << >> THEN << >>
  ELSE HeaderLines(Head(patch)) \o PatchLines(Tail(patch))

(* ------------------ aggregate.py: 1. parse the file paths --------------- *)

\* re.findall(r'diff --git a/(.*?) b/', patch)
RECURSIVE FindAllDiffGit(_)
FindAllDiffGit(lines) ==
  IF lines = << >> THEN << >>
  ELSE (IF Head(lines).k = "diffgit" THEN << Head(lines).a >> ELSE << >>)
       \o FindAllDiffGit(Tail(lines))

\* re.findall(r'--- a/(.*?)\n', patch): "--- /dev/null" does not match
RECURSIVE FindAllMinusA(_)
FindAllMinusA(lines) ==
  IF lines = << >> THEN << >>
  ELSE (IF Head(lines).k = "minus" /\ Head(lines).a # DevNull
        THEN << Head(lines).a >> ELSE << >>)
       \o FindAllMinusA(Tail(lines))

ParseFilePaths(patch) ==
  LET file_paths == FindAllDiffGit(PatchLines(patch))
      paths == FindAllMinusA(PatchLines(patch))
  IN  IF file_paths # << >> THEN file_paths
      ELSE IF paths # << >> THEN << paths[1] >>
      ELSE << >>

Range(seq) == {seq[i] : i \in 1..Len(seq)}

(* --------------------------- patcher.py: git ---------------------------- *)

\* git applies the sections in order to an image of the tree and writes the
\* image only when every section applied
ApplySection(r, s) ==
  IF ~r.ok THEN r
  ELSE IF s.old # DevNull /\ (r.tree[s.old] = Absent \/ r.tree[s.old] # s.pre)
       THEN [r EXCEPT !.ok = FALSE]
  ELSE IF s.new # DevNull /\ s.new # s.old /\ r.tree[s.new] # Absent
       THEN [r EXCEPT !.ok = FALSE]
  ELSE [ok |-> TRUE,
        tree |-> [p \in Paths |-> IF p = s.new THEN s.post
                                  ELSE IF p = s.old THEN Absent
                                  ELSE r.tree[p]]]

RECURSIVE GitImage(_, _)
GitImage(r, patch) ==
  IF patch = << >> THEN r
  ELSE GitImage(ApplySection(r, Head(patch)), Tail(patch))

\* the check letting a text with no patch in it pass (--allow-empty)
GitCheckOk_AllowEmpty(tree, patch) ==
  GitImage([ok |-> TRUE, tree |-> tree], patch).ok

\* "git apply --check" exits 0: the text holds a patch and all of it applies
GitCheckOk(tree, patch) ==
  patch # << >> /\ GitImage([ok |-> TRUE, tree |-> tree], patch).ok

\* apply_patch_with_git: the result and the tree it leaves
apply_patch_with_git(tree, patch) ==
  IF GitCheckOk(tree, patch)
  THEN [ok |-> TRUE, tree |-> GitImage([ok |-> TRUE, tree |-> tree], patch).tree]
  ELSE [ok |-> FALSE, tree |-> tree]

(* --------------------------- the gate's state --------------------------- *)

Gates == {1, 2}

VARIABLES
  fs,           \* the working tree: path -> bytes of the file, or Absent
  gate,         \* per gate: the locals of _execute_immune_logic and its position
  nextId,       \* the next command_id (uuid4: never the same twice)
  invocations,  \* gate invocations started so far
  overlapped,   \* some invocation started while another was in flight
  rb,           \* SpecRollback: a tree, a snapshot and the _rollback calls made
  pt,           \* SpecPatcher: one call of apply_patch_with_git, step by step
  sc,           \* SpecScore: a text and the calls of calculate_toxicity_score on it
  hd,           \* SpecHands: a file, a diff and the call of apply_code_patch on them
  bf            \* SpecHops: a graph, two nodes and the search between them

\* the variables the gate's actions leave alone
aux == << rb, pt, sc, hd, bf >>

\* the variables of the gate
gateVars == << fs, gate, nextId, invocations, overlapped >>

vars == << fs, gate, nextId, invocations, overlapped, rb, pt, sc, hd, bf >>

NoBackup == [p \in {} |-> None]

IdleGate ==
  [pc |-> "idle", command_id |-> 0, patch |-> << >>, file_paths |-> << >>,
   backup |-> NoBackup, pre_toxicity |-> 0, post_toxicity |-> 0,
   status |-> "none", events |-> << >>,
   \* the history of the invocation: the tree when it began, the tree when
   \* the applier returned, the calls made since
   base |-> [p \in Paths |-> Absent], image |-> [p \in Paths |-> Absent],
   applier_calls |-> 0, patch_applied |-> FALSE, rollbacks |-> 0,
   post_scored |-> FALSE,
   \* the numbered steps of _execute_immune_logic begun so far, in order
   steps |-> << >>,
   \* where the filesystem refused an operation of this invocation
   fault |-> "none"]

InFlight(g) == gate[g].pc \notin {"idle", "done", "raised"}

(* ------------------ aggregate.py: 2. backup, pre_toxicity --------------- *)

\* the read of line 46 raises for some path of file_paths
CaptureRaises(tree, file_paths) ==
  \E i \in 1..Len(file_paths) :
    tree[file_paths[i]] # Absent /\ ~Decodable(tree[file_paths[i]])

\* the capture taking every path for absent: nothing is read
Capture_AllAbsent(tree, file_paths) ==
  [p \in Range(file_paths) |-> None]

\* lines 42-48 and 62-68: path -> text of the file, or None
Capture(tree, file_paths) ==
  [p \in Range(file_paths) |-> IF tree[p] # Absent THEN ReadText(tree[p]) ELSE None]

RECURSIVE SumOver(_, _)
SumOver(contents, ps) ==
  IF ps = {} THEN 0
  ELSE LET p == CHOOSE x \in ps : TRUE
       IN (IF contents[p] # None THEN calculate_toxicity_score(contents[p]) ELSE 0)
          + SumOver(contents, ps \ {p})

\* the sum charging the penalty for every path that holds no file
Toxicity_AbsentCharged(contents) ==
  SumOver(contents, DOMAIN contents)
    + Cardinality({p \in DOMAIN contents : contents[p] = None})
        * PenaltyComplexity * WEIGHT_COMPLEXITY * ScoreDen

\* sum(calculate_toxicity_score(c) for c in contents.values() if c is not None)
Toxicity(contents) == SumOver(contents, DOMAIN contents)

(* -------------------------- aggregate.py: _rollback --------------------- *)

\* _rollback leaving the files the patch created
Rollback_KeepsCreated(tree, backup) ==
  [p \in Paths |->
     IF p \notin DOMAIN backup THEN tree[p]
     ELSE IF backup[p] = None THEN tree[p]
     ELSE WriteText(backup[p])]

\* _rollback opening the file to append instead of to overwrite
Rollback_Append(tree, backup) ==
  [p \in Paths |->
     IF p \notin DOMAIN backup THEN tree[p]
     ELSE IF backup[p] = None THEN Absent
     ELSE (IF tree[p] = Absent THEN << >> ELSE tree[p]) \o WriteText(backup[p])]

Rollback(tree, backup) ==
  [p \in Paths |->
     IF p \notin DOMAIN backup THEN tree[p]
     ELSE IF backup[p] = None THEN Absent
     ELSE WriteText(backup[p])]

(* ------------------ aggregate.py: 5. compare and decide ----------------- *)

\* the decision asking for a strict improvement
Accepts_Strict(post_toxicity, pre_toxicity) == post_toxicity < pre_toxicity

Accepts(post_toxicity, pre_toxicity) == post_toxicity <= pre_toxicity

(* ------------------ aggregate.py: 6. the event -------------------------- *)

\* the event with the two scores in each other's place
PatchAppliedEvent_Swapped(g, status, pre_toxicity, post_toxicity) ==
  [event_type |-> "PatchAppliedEvent", command_id |-> gate[g].command_id,
   patch |-> gate[g].patch, status |-> status,
   pre_toxicity |-> post_toxicity, post_toxicity |-> pre_toxicity]

PatchAppliedEvent(g, status, pre_toxicity, post_toxicity) ==
  [event_type |-> "PatchAppliedEvent", command_id |-> gate[g].command_id,
   patch |-> gate[g].patch, status |-> status,
   pre_toxicity |-> pre_toxicity, post_toxicity |-> post_toxicity]

(* ------------------------------ the inputs ------------------------------ *)

\* the paths a section names
Names(s) == {s.old, s.new} \ {DevNull}

\* the patches a caller hands to the gate: text with no diff in it, one
\* section, two sections about different files
PatchesFor(tree) ==
  {<< >>}
    \cup {<< s >> : s \in SectionsFor(tree, PatchContents)}
    \cup {st \in SectionsFor(tree, PatchContents) \X SectionsFor(tree, PatchContents) :
            Names(st[1]) \cap Names(st[2]) = {}}

(* ------------------------------- actions -------------------------------- *)

\* ApplyPatchCommand(patch) reaches _execute_immune_logic: lines 31-51
Handle(g, patch) ==
  /\ invocations' = invocations + 1
  /\ nextId' = nextId + 1
  /\ overlapped' = (overlapped \/ \E h \in Gates \ {g} : InFlight(h))
  /\ LET file_paths == ParseFilePaths(patch)
         fresh == [IdleGate EXCEPT !.command_id = nextId, !.patch = patch,
                                   !.file_paths = file_paths, !.base = fs]
     IN  gate' = [gate EXCEPT ![g] =
           IF CaptureRaises(fs, file_paths)
           THEN [fresh EXCEPT !.pc = "raised", !.steps = << "parse", "snapshot" >>]
           ELSE [fresh EXCEPT !.pc = "snapshotted",
                              !.steps = << "parse", "snapshot" >>,
                              !.backup = Capture(fs, file_paths),
                              !.pre_toxicity = Toxicity(Capture(fs, file_paths))]]
  /\ UNCHANGED << fs, aux >>

Receive(g) ==
  /\ gate[g].pc = "idle"
  /\ invocations < MaxInvocations
  /\ \E patch \in PatchesFor(fs) : Handle(g, patch)

\* the applier called again after it returned False
Apply_Retry(g) ==
  /\ gate[g].pc = "snapshotted"
  /\ LET r == apply_patch_with_git(fs, gate[g].patch)
     IN  /\ fs' = r.tree
         /\ gate' = [gate EXCEPT ![g].pc = IF r.ok THEN "patched"
                                           ELSE IF gate[g].applier_calls = 0 THEN "snapshotted"
                                           ELSE "apply_failed",
                                 ![g].patch_applied = r.ok,
                                 ![g].image = r.tree,
                                 ![g].steps = Append(@, "apply"),
                                 ![g].applier_calls = @ + 1]
  /\ UNCHANGED << nextId, invocations, overlapped, aux >>

\* line 54: patch_applied = apply_patch_with_git(command.patch)
Apply(g) ==
  /\ gate[g].pc = "snapshotted"
  /\ LET r == apply_patch_with_git(fs, gate[g].patch)
     IN  /\ fs' = r.tree
         /\ gate' = [gate EXCEPT ![g].pc = IF r.ok THEN "patched" ELSE "apply_failed",
                                 ![g].patch_applied = r.ok,
                                 ![g].image = r.tree,
                                 ![g].steps = Append(@, "apply"),
                                 ![g].applier_calls = @ + 1]
  /\ UNCHANGED << nextId, invocations, overlapped, aux >>

\* the failed application reported without the call of _rollback
RejectByGit_NoRollback(g) ==
  /\ gate[g].pc = "apply_failed"
  /\ fs' = fs
  /\ gate' = [gate EXCEPT ![g].pc = "done",
                          ![g].steps = @ \o << "decide", "emit" >>,
                          ![g].status = "rejected_by_git",
                          ![g].post_toxicity = gate[g].pre_toxicity,
                          ![g].events = << [event_type |-> "PatchAppliedEvent",
                                            command_id |-> gate[g].command_id,
                                            patch |-> gate[g].patch,
                                            status |-> "rejected_by_git",
                                            pre_toxicity |-> gate[g].pre_toxicity,
                                            post_toxicity |-> gate[g].pre_toxicity] >>]
  /\ UNCHANGED << nextId, invocations, overlapped, aux >>

\* lines 56-59 and 82-94: not patch_applied
RejectByGit(g) ==
  /\ gate[g].pc = "apply_failed"
  /\ fs' = Rollback(fs, gate[g].backup)
  /\ gate' = [gate EXCEPT ![g].pc = "done",
                          ![g].steps = @ \o << "decide", "emit" >>,
                          ![g].rollbacks = @ + 1,
                          ![g].status = "rejected_by_git",
                          ![g].post_toxicity = gate[g].pre_toxicity,
                          ![g].events = << PatchAppliedEvent(g, "rejected_by_git",
                                             gate[g].pre_toxicity, gate[g].pre_toxicity) >>]
  /\ UNCHANGED << nextId, invocations, overlapped, aux >>

\* lines 61-71: new_contents, post_toxicity
PostScore(g) ==
  /\ gate[g].pc = "patched"
  /\ gate' = [gate EXCEPT ![g] =
       IF CaptureRaises(fs, gate[g].file_paths)
       THEN [@ EXCEPT !.pc = "raised", !.steps = Append(@, "post-score")]
       ELSE [@ EXCEPT !.pc = "scored",
                      !.steps = Append(@, "post-score"),
                      !.post_scored = TRUE,
                      !.post_toxicity = Toxicity(Capture(fs, gate[g].file_paths))]]
  /\ UNCHANGED << fs, nextId, invocations, overlapped, aux >>

\* the decision rolling back whatever the scores are
Decide_AlwaysRollback(g) ==
  /\ gate[g].pc = "scored"
  /\ LET status == IF gate[g].post_toxicity <= gate[g].pre_toxicity
                   THEN "applied" ELSE "rejected_by_toxicity"
     IN  /\ fs' = [p \in Paths |->
                     IF p \notin DOMAIN gate[g].backup THEN fs[p]
                     ELSE IF gate[g].backup[p] = None THEN Absent
                     ELSE gate[g].backup[p]]
         /\ gate' = [gate EXCEPT ![g].pc = "done",
                                 ![g].steps = @ \o << "decide", "emit" >>,
                                 ![g].rollbacks = @ + 1,
                                 ![g].status = status,
                                 ![g].events = << [event_type |-> "PatchAppliedEvent",
                                                   command_id |-> gate[g].command_id,
                                                   patch |-> gate[g].patch,
                                                   status |-> status,
                                                   pre_toxicity |-> gate[g].pre_toxicity,
                                                   post_toxicity |-> gate[g].post_toxicity] >>]
  /\ UNCHANGED << nextId, invocations, overlapped, aux >>

\* lines 73-80 and 82-94
Decide(g) ==
  /\ gate[g].pc = "scored"
  /\ IF Accepts(gate[g].post_toxicity, gate[g].pre_toxicity)
     THEN /\ fs' = fs
          /\ gate' = [gate EXCEPT ![g].pc = "done",
                                  ![g].steps = @ \o << "decide", "emit" >>,
                                  ![g].status = "applied",
                                  ![g].events = << PatchAppliedEvent(g, "applied",
                                       gate[g].pre_toxicity, gate[g].post_toxicity) >>]
     ELSE /\ fs' = Rollback(fs, gate[g].backup)
          /\ gate' = [gate EXCEPT ![g].pc = "done",
                                  ![g].steps = @ \o << "decide", "emit" >>,
                                  ![g].rollbacks = @ + 1,
                                  ![g].status = "rejected_by_toxicity",
                                  ![g].events = << PatchAppliedEvent(g, "rejected_by_toxicity",
                                       gate[g].pre_toxicity, gate[g].post_toxicity) >>]
  /\ UNCHANGED << nextId, invocations, overlapped, aux >>

\* line 94 (return [event]) or the exception leaving the handler: the
\* caller has the result and the locals are gone
Return(g) ==
  /\ gate[g].pc \in {"done", "raised"}
  /\ gate' = [gate EXCEPT ![g] = IdleGate]
  /\ UNCHANGED << fs, nextId, invocations, overlapped, aux >>

(* ---------------------------- specifications ---------------------------- *)

Trees == [Paths -> TreeContents \cup {Absent}]

GateInit ==
  /\ gate = [g \in Gates |-> IdleGate]
  /\ nextId = 1
  /\ invocations = 0
  /\ overlapped = FALSE

RbIdle == [tree |-> [p \in Paths |-> Absent], backup |-> NoBackup, runs |-> 0,
           once |-> [p \in Paths |-> Absent]]

\* no call of apply_patch_with_git under way
PtIdle ==
  [pc |-> "idle", tree |-> [p \in Paths |-> Absent], tree0 |-> [p \in Paths |-> Absent],
   patch |-> << >>, encodable |-> TRUE, spawn_ok |-> TRUE, tmp |-> FALSE,
   raising |-> FALSE, disturbed |-> FALSE, check_calls |-> 0, check_rc |-> 0,
   apply_calls |-> 0, apply_rc |-> 0, result |-> "none"]

\* no text being scored
ScIdle == [text |-> << >>, calls |-> 0, score |-> 0, first |-> 0]

\* no call of apply_code_patch under way
HdIdle == [file |-> << >>, file0 |-> << >>, diff |-> << >>, calls |-> 0, result |-> "none"]

\* no call of calculate_architectural_hops made
BfIdle ==
  [graph |-> << >>, start_node |-> 0, end_node |-> 0, calls |-> 0,
   result |-> [kind |-> "none", value |-> 0, node |-> 0]]

Init ==
  /\ fs \in Trees
  /\ GateInit
  /\ rb = RbIdle
  /\ pt = PtIdle
  /\ sc = ScIdle
  /\ hd = HdIdle
  /\ bf = BfIdle

\* one gate, its invocations one after the other
Next ==
  \/ Receive(1)
  \/ Apply(1)
  \/ RejectByGit(1)
  \/ PostScore(1)
  \/ Decide(1)
  \/ Return(1)

Spec == Init /\ [][Next]_vars

\* the handler is synchronous: once called it goes from each statement to
\* the next, both runs of git returning
Proceed(g) == Apply(g) \/ RejectByGit(g) \/ PostScore(g) \/ Decide(g)

SpecLive == Init /\ [][Next]_vars /\ WF_vars(Proceed(1))

(* ------------- a filesystem that refuses an operation: SpecFault -------- *)

\* the keys of backup in the order of their insertion (lines 43-48)
RECURSIVE BackupOrder(_, _)
BackupOrder(file_paths, seen) ==
  IF file_paths = << >> THEN << >>
  ELSE IF Head(file_paths) \in seen THEN BackupOrder(Tail(file_paths), seen)
  ELSE << Head(file_paths) >> \o BackupOrder(Tail(file_paths), seen \cup {Head(file_paths)})

\* lines 98-104 for the entries before the k-th
RollbackUpTo(tree, backup, order, k) ==
  Rollback(tree, [p \in {order[i] : i \in 1..(k - 1)} |-> backup[p]])

\* the entry unlinks (line 102) or writes (line 104)
TouchesFile(tree, backup, p) == backup[p] # None \/ tree[p] # Absent

\* line 46: read_text raises OSError for a file that exists
HandleFault(g, patch) ==
  /\ \E i \in 1..Len(ParseFilePaths(patch)) : fs[ParseFilePaths(patch)[i]] # Absent
  /\ invocations' = invocations + 1
  /\ nextId' = nextId + 1
  /\ overlapped' = (overlapped \/ \E h \in Gates \ {g} : InFlight(h))
  /\ gate' = [gate EXCEPT ![g] =
       [IdleGate EXCEPT !.command_id = nextId, !.patch = patch,
                        !.file_paths = ParseFilePaths(patch), !.base = fs,
                        !.pc = "raised", !.steps = << "parse", "snapshot" >>,
                        !.fault = "capture"]]
  /\ UNCHANGED << fs, aux >>

ReceiveFault(g) ==
  /\ gate[g].pc = "idle"
  /\ invocations < MaxInvocations
  /\ \E patch \in PatchesFor(fs) : HandleFault(g, patch)

\* _rollback catching the error and going on to the event
RollbackFault_Swallowed(g) ==
  /\ \/ gate[g].pc = "apply_failed"
     \/ gate[g].pc = "scored" /\ ~Accepts(gate[g].post_toxicity, gate[g].pre_toxicity)
  /\ LET order == BackupOrder(gate[g].file_paths, {})
         status == IF gate[g].pc = "apply_failed" THEN "rejected_by_git"
                   ELSE "rejected_by_toxicity"
     IN  \E k \in 1..Len(order) :
           /\ TouchesFile(fs, gate[g].backup, order[k])
           /\ fs' = RollbackUpTo(fs, gate[g].backup, order, k)
           /\ gate' = [gate EXCEPT ![g].pc = "done",
                                   ![g].rollbacks = @ + 1,
                                   ![g].fault = "rollback",
                                   ![g].status = status,
                                   ![g].events = << PatchAppliedEvent(g, status,
                                        gate[g].pre_toxicity, gate[g].post_toxicity) >>]
  /\ UNCHANGED << nextId, invocations, overlapped, aux >>

\* lines 57 and 79: unlink or write_text raises OSError at the k-th entry
\* of backup, the file it was called for left as it is
RollbackFault(g) ==
  /\ \/ gate[g].pc = "apply_failed"
     \/ gate[g].pc = "scored" /\ ~Accepts(gate[g].post_toxicity, gate[g].pre_toxicity)
  /\ LET order == BackupOrder(gate[g].file_paths, {})
     IN  \E k \in 1..Len(order) :
           /\ TouchesFile(fs, gate[g].backup, order[k])
           /\ fs' = RollbackUpTo(fs, gate[g].backup, order, k)
           /\ gate' = [gate EXCEPT ![g].pc = "raised",
                                   ![g].rollbacks = @ + 1,
                                   ![g].fault = "rollback"]
  /\ UNCHANGED << nextId, invocations, overlapped, aux >>

NextFault ==
  \/ Next
  \/ ReceiveFault(1)
  \/ RollbackFault(1)

SpecFault == Init /\ [][NextFault]_vars

(* ------------- two gates against one working tree: SpecConc ------------- *)

\* the patches of SpecConc: text with no diff in it, or one section
ConcContents == {C_A, C_B}

ConcPatchesFor(tree) ==
  {<< >>} \cup {<< s >> : s \in SectionsFor(tree, ConcContents)}

\* each gate handles one command; nothing keeps the two apart
ReceiveConc(g) ==
  /\ gate[g].pc = "idle"
  /\ \E patch \in ConcPatchesFor(fs) : Handle(g, patch)

NextConc ==
  \E g \in Gates :
    \/ ReceiveConc(g)
    \/ Apply(g)
    \/ RejectByGit(g)
    \/ PostScore(g)
    \/ Decide(g)

SpecConc == Init /\ [][NextConc]_vars

(* ------------------- _rollback on its own: SpecRollback ----------------- *)

\* _rollback calls made on one snapshot
MaxRollbackRuns == 2

RbContents == TreeContents \cup PatchContents \cup {C_BIN, Absent}

\* a snapshot: some paths, each with the text read from it or None
Snapshots ==
  UNION { [d -> {ReadText(c) : c \in PatchContents} \cup {None}] : d \in SUBSET Paths }

InitRollback ==
  /\ fs = [p \in Paths |-> Absent]
  /\ GateInit
  /\ \E tree \in [Paths -> RbContents], backup \in Snapshots :
       rb = [tree |-> tree, backup |-> backup, runs |-> 0, once |-> tree]
  /\ pt = PtIdle
  /\ sc = ScIdle
  /\ hd = HdIdle
  /\ bf = BfIdle

\* self._rollback(backup), on the tree the last call left
RollbackAgain ==
  /\ rb.runs < MaxRollbackRuns
  /\ rb' = [rb EXCEPT !.tree = Rollback(rb.tree, rb.backup),
                      !.runs = @ + 1,
                      !.once = IF rb.runs = 0 THEN Rollback(rb.tree, rb.backup) ELSE @]
  /\ UNCHANGED << gateVars, pt, sc, hd, bf >>

NextRollback == RollbackAgain

SpecRollback == InitRollback /\ [][NextRollback]_vars

(* -------------- apply_patch_with_git on its own: SpecPatcher ------------ *)

\* the patch texts handed to the patcher: no diff in it, or one section
PatcherPatchesFor(tree) ==
  {<< >>} \cup {<< s >> : s \in SectionsFor(tree, PatchContents)}

\* One call.  encodable: the text can be written out as UTF-8 (it holds no
\* lone surrogate).  spawn_ok: subprocess.run finds git.
InitPatcher ==
  /\ fs = [p \in Paths |-> Absent]
  /\ GateInit
  /\ rb = RbIdle
  /\ sc = ScIdle
  /\ hd = HdIdle
  /\ bf = BfIdle
  /\ \E tree \in Trees, enc \in BOOLEAN, sp \in BOOLEAN :
       \E patch \in PatcherPatchesFor(tree) :
         pt = [PtIdle EXCEPT !.pc = "start", !.tree = tree, !.tree0 = tree,
                             !.patch = patch, !.encodable = enc, !.spawn_ok = sp]

\* lines 20-22: the temporary file is created, the text written, the file
\* closed (delete=False); a text that does not encode makes write() raise
TempFile ==
  /\ pt.pc = "start"
  /\ pt' = [pt EXCEPT !.tmp = TRUE,
                      !.pc = IF pt.encodable THEN "try" ELSE "raised"]
  /\ UNCHANGED << gateVars, rb, sc, hd, bf >>

\* the check whose exit code is not looked at
CheckProcess_NoReturn ==
  /\ pt.pc = "try"
  /\ pt' = IF ~pt.spawn_ok
           THEN [pt EXCEPT !.pc = "finally", !.raising = TRUE]
           ELSE [pt EXCEPT !.check_calls = @ + 1,
                           !.check_rc = IF GitCheckOk(pt.tree, pt.patch) THEN 0 ELSE 1,
                           !.pc = "checked"]
  /\ UNCHANGED << gateVars, rb, sc, hd, bf >>

\* lines 24-32: git apply --check; a non-zero exit returns False
CheckProcess ==
  /\ pt.pc = "try"
  /\ pt' = IF ~pt.spawn_ok
           THEN [pt EXCEPT !.pc = "finally", !.raising = TRUE]
           ELSE IF GitCheckOk(pt.tree, pt.patch)
           THEN [pt EXCEPT !.check_calls = @ + 1, !.check_rc = 0, !.pc = "checked"]
           ELSE [pt EXCEPT !.check_calls = @ + 1, !.check_rc = 1,
                           !.result = "False", !.pc = "finally"]
  /\ UNCHANGED << gateVars, rb, sc, hd, bf >>

\* between the two subprocesses another process writes or removes a file of
\* the tree: nothing holds the tree for the call
Disturb ==
  /\ pt.pc = "checked"
  /\ ~pt.disturbed
  /\ \E p \in Paths, c \in {Absent, C_B} :
       /\ pt.tree[p] # c
       /\ pt' = [pt EXCEPT !.tree = [pt.tree EXCEPT ![p] = c], !.disturbed = TRUE]
  /\ UNCHANGED << gateVars, rb, sc, hd, bf >>

\* lines 34-43: git apply; it writes the tree only when every section applies
ApplyProcess ==
  /\ pt.pc = "checked"
  /\ LET r == GitImage([ok |-> TRUE, tree |-> pt.tree], pt.patch)
     IN  pt' = [pt EXCEPT !.apply_calls = @ + 1,
                         !.apply_rc = IF r.ok THEN 0 ELSE 1,
                         !.tree = IF r.ok THEN r.tree ELSE pt.tree,
                         !.result = IF r.ok THEN "True" ELSE "False",
                         !.pc = "finally"]
  /\ UNCHANGED << gateVars, rb, sc, hd, bf >>

\* lines 44-46: finally, Path(patch_path).unlink(); then the return or the
\* exception goes on to the caller
Unlink ==
  /\ pt.pc = "finally"
  /\ pt' = [pt EXCEPT !.tmp = FALSE,
                      !.pc = IF pt.raising THEN "raised" ELSE "returned"]
  /\ UNCHANGED << gateVars, rb, sc, hd, bf >>

NextPatcher ==
  \/ TempFile
  \/ CheckProcess
  \/ Disturb
  \/ ApplyProcess
  \/ Unlink

SpecPatcher == InitPatcher /\ [][NextPatcher]_vars

(* -------------- calculate_toxicity_score on its own: SpecScore ---------- *)

\* calls of calculate_toxicity_score made on one text
MaxScoreCalls == 2

\* every text of up to MaxLines lines
Texts == UNION { [1..n -> {L(t, "LF") : t \in TextToks}] : n \in 0..MaxLines }

InitScore ==
  /\ fs = [p \in Paths |-> Absent]
  /\ GateInit
  /\ rb = RbIdle
  /\ pt = PtIdle
  /\ hd = HdIdle
  /\ bf = BfIdle
  /\ \E text \in Texts : sc = [ScIdle EXCEPT !.text = text]

\* calculate_toxicity_score(code)
Score ==
  /\ sc.calls < MaxScoreCalls
  /\ sc' = [sc EXCEPT !.calls = @ + 1,
                      !.score = calculate_toxicity_score(sc.text),
                      !.first = IF sc.calls = 0 THEN calculate_toxicity_score(sc.text) ELSE @]
  /\ UNCHANGED << gateVars, rb, pt, hd, bf >>

NextScore == Score

SpecScore == InitScore /\ [][NextScore]_vars

(* ------------------ apply_code_patch on its own: SpecHands -------------- *)

\* longest diff text and longest file, in pieces of text
MaxDiffLen == 5
MaxFileLen == 3

\* The pieces a diff text is made of: the three marker lines, two different
\* pieces of text, a piece of whitespace.
HEADER_SEARCH == "<<<<<<< SEARCH"
SEPARATOR == "======="
HEADER_REPLACE == ">>>>>>> REPLACE"
Markers == {HEADER_SEARCH, SEPARATOR, HEADER_REPLACE}
Pieces == {"a", "b", "ws"}

DiffTexts == UNION { [1..n -> Markers \cup Pieces] : n \in 0..MaxDiffLen }
FileTexts == UNION { [1..n -> {"a", "b"}] : n \in 0..MaxFileLen }

\* diff.find(piece, from): the first index at or after from, 0 for none
RECURSIVE IndexOf(_, _, _)
IndexOf(text, piece, from) ==
  IF from > Len(text) THEN 0
  ELSE IF text[from] = piece THEN from
  ELSE IndexOf(text, piece, from + 1)

\* text.count(piece)
RECURSIVE CountOf(_, _)
CountOf(text, piece) ==
  IF text = << >> THEN 0
  ELSE (IF Head(text) = piece THEN 1 ELSE 0) + CountOf(Tail(text), piece)

\* text.strip()
RECURSIVE LStrip(_)
LStrip(text) ==
  IF text # << >> /\ Head(text) = "ws" THEN LStrip(Tail(text)) ELSE text

RECURSIVE RStrip(_)
RStrip(text) ==
  IF text # << >> /\ text[Len(text)] = "ws"
  THEN RStrip(SubSeq(text, 1, Len(text) - 1)) ELSE text

Strip(text) == RStrip(LStrip(text))

\* the test of the empty diff that never holds
IsEmptyDiff_Never(diff) == FALSE

\* the diff string is empty
IsEmptyDiff(diff) == diff = << >>

\* the parse reporting a missing separator as a missing header
ParseError_OneErrorForBoth(diff) ==
  IF IndexOf(diff, HEADER_SEARCH, 1) = 0 THEN "HeaderNotFound"
  ELSE IF IndexOf(diff, SEPARATOR, IndexOf(diff, HEADER_SEARCH, 1) + 1) = 0
       THEN "HeaderNotFound"
  ELSE IF IndexOf(diff, HEADER_REPLACE,
                  IndexOf(diff, SEPARATOR, IndexOf(diff, HEADER_SEARCH, 1) + 1) + 1) = 0
       THEN "Malformed"
  ELSE IF \E m \in Markers : CountOf(diff, m) # 1 THEN "Malformed"
  ELSE "none"

\* the error the parse of the markers raises, "none" for a diff with exactly
\* one header, one separator and one end marker, in that order
ParseError(diff) ==
  IF IndexOf(diff, HEADER_SEARCH, 1) = 0 THEN "HeaderNotFound"
  ELSE IF IndexOf(diff, SEPARATOR, IndexOf(diff, HEADER_SEARCH, 1) + 1) = 0
       THEN "SeparatorNotFound"
  ELSE IF IndexOf(diff, HEADER_REPLACE,
                  IndexOf(diff, SEPARATOR, IndexOf(diff, HEADER_SEARCH, 1) + 1) + 1) = 0
       THEN "Malformed"
  ELSE IF \E m \in Markers : CountOf(diff, m) # 1 THEN "Malformed"
  ELSE "none"

\* the search block and the replacement block of a diff that parses
SearchBlock(diff) ==
  LET h == IndexOf(diff, HEADER_SEARCH, 1)
      sp == IndexOf(diff, SEPARATOR, h + 1)
  IN  Strip(SubSeq(diff, h + 1, sp - 1))

ReplaceBlock(diff) ==
  LET h == IndexOf(diff, HEADER_SEARCH, 1)
      sp == IndexOf(diff, SEPARATOR, h + 1)
      e == IndexOf(diff, HEADER_REPLACE, sp + 1)
  IN  Strip(SubSeq(diff, sp + 1, e - 1))

\* block stands in content at index i
MatchesAt(content, block, i) ==
  /\ i + Len(block) - 1 <= Len(content)
  /\ \A k \in 1..Len(block) : content[i + k - 1] = block[k]

\* the search that compares the first piece of the block only
RECURSIVE Find_FirstPieceOnly(_, _, _)
Find_FirstPieceOnly(content, block, from) ==
  IF from > Len(content) THEN 0
  ELSE IF content[from] = block[1] THEN from
  ELSE Find_FirstPieceOnly(content, block, from + 1)

\* content.find(block, from): the first index the block stands at, 0 for none
RECURSIVE Find(_, _, _)
Find(content, block, from) ==
  IF from + Len(block) - 1 > Len(content) THEN 0
  ELSE IF MatchesAt(content, block, from) THEN from
  ELSE Find(content, block, from + 1)

\* the replacement of every occurrence of the block
RECURSIVE ReplaceFirst_All(_, _, _)
ReplaceFirst_All(content, block, by) ==
  IF content = << >> THEN << >>
  ELSE IF MatchesAt(content, block, 1)
       THEN by \o ReplaceFirst_All(SubSeq(content, Len(block) + 1, Len(content)), block, by)
  ELSE << Head(content) >> \o ReplaceFirst_All(Tail(content), block, by)

\* content.replace(block, by, 1)
RECURSIVE ReplaceFirst(_, _, _)
ReplaceFirst(content, block, by) ==
  IF content = << >> THEN << >>
  ELSE IF MatchesAt(content, block, 1)
       THEN by \o SubSeq(content, Len(block) + 1, Len(content))
  ELSE << Head(content) >> \o ReplaceFirst(Tail(content), block, by)

\* an empty search block put in front of a file that has content
apply_code_patch_Prepends(content, diff) ==
  IF IsEmptyDiff(diff) THEN [result |-> "False", file |-> content]
  ELSE IF ParseError(diff) # "none" THEN [result |-> ParseError(diff), file |-> content]
  ELSE IF SearchBlock(diff) = << >>
       THEN [result |-> "True", file |-> ReplaceBlock(diff) \o content]
  ELSE IF Find(content, SearchBlock(diff), 1) = 0 THEN [result |-> "False", file |-> content]
  ELSE [result |-> "True",
        file |-> ReplaceFirst(content, SearchBlock(diff), ReplaceBlock(diff))]

\* apply_code_patch(file_path, diff): what it returns or raises, and the
\* content it leaves in the file
apply_code_patch(content, diff) ==
  IF IsEmptyDiff(diff) THEN [result |-> "False", file |-> content]
  ELSE IF ParseError(diff) # "none" THEN [result |-> ParseError(diff), file |-> content]
  ELSE IF SearchBlock(diff) = << >>
       THEN IF content # << >> THEN [result |-> "False", file |-> content]
            ELSE [result |-> "True", file |-> ReplaceBlock(diff)]
  ELSE IF Find(content, SearchBlock(diff), 1) = 0 THEN [result |-> "False", file |-> content]
  ELSE [result |-> "True",
        file |-> ReplaceFirst(content, SearchBlock(diff), ReplaceBlock(diff))]

InitHands ==
  /\ fs = [p \in Paths |-> Absent]
  /\ GateInit
  /\ rb = RbIdle
  /\ pt = PtIdle
  /\ sc = ScIdle
  /\ bf = BfIdle
  /\ \E content \in FileTexts, diff \in DiffTexts :
       hd = [HdIdle EXCEPT !.file = content, !.file0 = content, !.diff = diff]

\* the call apply_code_patch(code_file, diff_block)
CallHands ==
  /\ hd.calls = 0
  /\ LET r == apply_code_patch(hd.file, hd.diff)
     IN  hd' = [hd EXCEPT !.calls = 1, !.result = r.result, !.file = r.file]
  /\ UNCHANGED << gateVars, rb, pt, sc, bf >>

NextHands == CallHands

SpecHands == InitHands /\ [][NextHands]_vars

(* --------- calculate_architectural_hops on its own: SpecHops ------------ *)

\* the components comp_001 .. comp_00n, by their number
MaxNode == 3
Nodes == 1..MaxNode

RECURSIVE Ascending(_)
Ascending(S) ==
  IF S = {} THEN << >>
  ELSE LET m == CHOOSE x \in S : \A y \in S : x <= y
       IN  << m >> \o Ascending(S \ {m})

Reverse(s) == [i \in 1..Len(s) |-> s[Len(s) + 1 - i]]

\* the "connections" of a component: identifiers, known to the graph or not
ConnectionsUp == {Ascending(S) : S \in SUBSET Nodes}
ConnectionsDown == {Reverse(c) : c \in ConnectionsUp}

\* the adjacency lists build_adjacency_list makes: a list for each
\* component that has an id, none for the others
Graphs ==
  UNION { [K -> ConnectionsUp] \cup [K -> ConnectionsDown] : K \in SUBSET Nodes }

\* line 43: graph.get(current_node, [])
Neighbours(graph, node) == IF node \in DOMAIN graph THEN graph[node] ELSE << >>

\* lines 43-49: the for loop over the neighbours of the popped node
RECURSIVE ScanNeighbours(_, _, _, _, _, _)
ScanNeighbours(list, i, end_node, distance, visited, queue) ==
  IF i > Len(list) THEN [found |-> FALSE, visited |-> visited, queue |-> queue]
  ELSE IF list[i] = end_node THEN [found |-> TRUE, visited |-> visited, queue |-> queue]
  ELSE IF list[i] \notin visited
       THEN ScanNeighbours(list, i + 1, end_node, distance, visited \cup {list[i]},
                           Append(queue, << list[i], distance + 1 >>))
       ELSE ScanNeighbours(list, i + 1, end_node, distance, visited, queue)

\* lines 40-51: the while loop over the queue of (node, distance)
RECURSIVE BreadthFirst(_, _, _, _)
BreadthFirst(graph, end_node, queue, visited) ==
  IF queue = << >> THEN -1
  ELSE LET current_node == Head(queue)[1]
           distance == Head(queue)[2]
           r == ScanNeighbours(Neighbours(graph, current_node), 1, end_node,
                               distance, visited, Tail(queue))
       IN  IF r.found THEN distance + 1
           ELSE BreadthFirst(graph, end_node, r.queue, r.visited)

\* the function looking for its two nodes in the graph before anything else
calculate_architectural_hops_ChecksNodesFirst(graph, start_node, end_node) ==
  IF start_node \notin DOMAIN graph \/ end_node \notin DOMAIN graph
  THEN [kind |-> "ValueError", value |-> 0,
        node |-> IF start_node \notin DOMAIN graph THEN start_node ELSE end_node]
  ELSE IF start_node = end_node THEN [kind |-> "return", value |-> 0, node |-> 0]
  ELSE [kind |-> "return",
        value |-> BreadthFirst(graph, end_node, << << start_node, 0 >> >>, {start_node}),
        node |-> 0]

\* lines 31-51
calculate_architectural_hops(graph, start_node, end_node) ==
  IF start_node = end_node THEN [kind |-> "return", value |-> 0, node |-> 0]
  ELSE IF start_node \notin DOMAIN graph \/ end_node \notin DOMAIN graph
  THEN [kind |-> "ValueError", value |-> 0,
        node |-> IF start_node \notin DOMAIN graph THEN start_node ELSE end_node]
  ELSE [kind |-> "return",
        value |-> BreadthFirst(graph, end_node, << << start_node, 0 >> >>, {start_node}),
        node |-> 0]

InitHops ==
  /\ fs = [p \in Paths |-> Absent]
  /\ GateInit
  /\ rb = RbIdle
  /\ pt = PtIdle
  /\ sc = ScIdle
  /\ hd = HdIdle
  /\ \E graph \in Graphs, start_node \in Nodes, end_node \in Nodes :
       bf = [BfIdle EXCEPT !.graph = graph, !.start_node = start_node,
                           !.end_node = end_node]

\* the call calculate_architectural_hops(graph, start, end)
CallHops ==
  /\ bf.calls = 0
  /\ bf' = [bf EXCEPT !.calls = 1,
                      !.result = calculate_architectural_hops(bf.graph, bf.start_node,
                                                              bf.end_node)]
  /\ UNCHANGED << gateVars, rb, pt, sc, hd >>

NextHops == CallHops

SpecHops == InitHops /\ [][NextHops]_vars

(* ------------------------------- the claims ------------------------------ *)

Done(g) == gate[g].pc = "done"
Rejected(g) == gate[g].status \in {"rejected_by_git", "rejected_by_toxicity"}

\* the files the patch application created, modified or deleted
Changed(g) == {p \in Paths : gate[g].image[p] # gate[g].base[p]}

\* the paths the sections of the patch name
RECURSIVE TouchedPaths(_)
TouchedPaths(patch) ==
  IF patch = << >> THEN {}
  ELSE Names(Head(patch)) \cup TouchedPaths(Tail(patch))

\* C1: when an invocation ends rejected (by git or by toxicity), every file
\* the patch application created, modified or deleted holds the bytes it held
\* before the invocation, and is absent if it was absent before.
C1_RejectionRestoresEveryChangedFile ==
  \A g \in Gates :
    Done(g) /\ Rejected(g) => \A p \in Changed(g) : fs[p] = gate[g].base[p]

\* C2: when the applier returned success, the status is "applied" exactly
\* when post_toxicity <= pre_toxicity and "rejected_by_toxicity" exactly when
\* post_toxicity > pre_toxicity.
C2_StatusFollowsScores ==
  \A g \in Gates :
    Done(g) /\ gate[g].patch_applied =>
      /\ gate[g].status = "applied" <=> gate[g].post_toxicity <= gate[g].pre_toxicity
      /\ gate[g].status = "rejected_by_toxicity" <=> gate[g].post_toxicity > gate[g].pre_toxicity

\* an accepted patch that changed the tree and left the score as it was
C2_Witness_TieAccepted ==
  \E g \in Gates :
    /\ Done(g) /\ gate[g].patch_applied /\ gate[g].status = "applied"
    /\ gate[g].post_toxicity = gate[g].pre_toxicity
    /\ gate[g].pre_toxicity > 0
    /\ Changed(g) # {}

\* C3: once the applier has been invoked, an invocation that ends, by its
\* return or by an exception, leaves the tree either as the applier left it
\* together with the status "applied", or with every target file holding the
\* text it held before the change.
C3_AcceptedOrRestored ==
  \A g \in Gates :
    gate[g].pc \in {"done", "raised"} /\ gate[g].applier_calls > 0 =>
      \/ gate[g].status = "applied" /\ fs = gate[g].image
      \/ \A p \in Range(gate[g].file_paths) :
           (fs[p] = Absent <=> gate[g].base[p] = Absent)
           /\ (fs[p] # Absent => ReadText(fs[p]) = ReadText(gate[g].base[p]))

\* C4: when apply_patch_with_git returned False the gate restores the
\* snapshot, reports "rejected_by_git" with post_toxicity = pre_toxicity,
\* computes no post-change score, and returns its event rather than raising.
C4_ApplierFailureIsRejectedByGit ==
  \A g \in Gates :
    gate[g].applier_calls > 0 /\ ~gate[g].patch_applied =>
      /\ gate[g].pc \in {"apply_failed", "done"}
      /\ ~gate[g].post_scored
      /\ Done(g) =>
           /\ gate[g].status = "rejected_by_git"
           /\ gate[g].post_toxicity = gate[g].pre_toxicity
           /\ gate[g].rollbacks = 1
           /\ Len(gate[g].events) = 1
           /\ \A p \in DOMAIN gate[g].backup :
                fs[p] = IF gate[g].backup[p] = None THEN Absent
                        ELSE WriteText(gate[g].backup[p])

\* a failed application over a file that existed and was put back
C4_Witness_FailedApply ==
  \E g \in Gates :
    /\ Done(g) /\ gate[g].applier_calls > 0 /\ ~gate[g].patch_applied
    /\ gate[g].patch # << >>
    /\ \E p \in DOMAIN gate[g].backup : gate[g].backup[p] # None

\* C5: an invocation that returns has emitted exactly one event; its status
\* is one of the three, it carries the id of the command and the pre_toxicity
\* and post_toxicity computed in this invocation; no event exists before.
C5_OneEventPerInvocation ==
  \A g \in Gates :
    /\ ~Done(g) => gate[g].events = << >>
    /\ Done(g) =>
         /\ Len(gate[g].events) = 1
         /\ gate[g].events[1].status \in {"applied", "rejected_by_git", "rejected_by_toxicity"}
         /\ gate[g].events[1].status = gate[g].status
         /\ gate[g].events[1].command_id = gate[g].command_id
         /\ gate[g].events[1].command_id = nextId - 1
         /\ gate[g].events[1].pre_toxicity =
              Toxicity(Capture(gate[g].base, gate[g].file_paths))
         /\ gate[g].events[1].post_toxicity =
              IF gate[g].patch_applied
              THEN Toxicity(Capture(gate[g].image, gate[g].file_paths))
              ELSE gate[g].events[1].pre_toxicity

\* a second invocation has returned, rejected for toxicity, with its scores
C5_Witness_SecondEvent ==
  \E g \in Gates :
    /\ Done(g) /\ gate[g].command_id = 2
    /\ gate[g].status = "rejected_by_toxicity"
    /\ gate[g].events[1].post_toxicity > gate[g].events[1].pre_toxicity
    /\ gate[g].events[1].pre_toxicity > 0

\* C7: after _rollback every path of the snapshot is byte-identical to its
\* state when the snapshot was taken, and absent if it was absent then.
C7_RollbackRestoresBytes ==
  \A g \in Gates :
    Done(g) /\ gate[g].rollbacks > 0 =>
      \A p \in DOMAIN gate[g].backup : fs[p] = gate[g].base[p]

\* C9: with status "applied" the gate made no write and no delete after the
\* applier returned: _rollback was not called and the tree is the one the
\* applier left; nor is it touched between the applier's return and the
\* decision.
C9_AppliedLeavesAppliersTree ==
  \A g \in Gates :
    /\ gate[g].pc \in {"patched", "scored"} => fs = gate[g].image /\ gate[g].rollbacks = 0
    /\ Done(g) /\ gate[g].status = "applied" => fs = gate[g].image /\ gate[g].rollbacks = 0

\* an accepted patch of two files, both changed on disk
C9_Witness_AppliedTwoFiles ==
  \E g \in Gates :
    /\ Done(g) /\ gate[g].status = "applied"
    /\ Changed(g) = Paths
    /\ fs # gate[g].base

\* the sum of the scores of the paths ps that exist in tree
ToxicityOfPaths(tree, ps) == Toxicity([p \in ps |-> IF tree[p] # Absent THEN ReadText(tree[p]) ELSE None])

\* C10: pre_toxicity is the sum of the scores of the files the patch touches
\* that exist before the application, and after a successful application
\* post_toxicity is the sum over the same files in their new state, files
\* created by the patch included.
C10_ScoresCoverEveryTouchedFile ==
  \A g \in Gates :
    Done(g) /\ gate[g].patch_applied =>
      /\ gate[g].pre_toxicity = ToxicityOfPaths(gate[g].base, TouchedPaths(gate[g].patch))
      /\ gate[g].post_toxicity = ToxicityOfPaths(gate[g].image, TouchedPaths(gate[g].patch))

\* the text read_text() gives for a file, None for no file
TextOf(bytes) == IF bytes = Absent THEN None ELSE ReadText(bytes)

\* gate g reported "applied" for a change of path p, gate h rolled back, and
\* p holds what h's snapshot held, not what g's patch made of it
LostUpdate(g, h, p) ==
  /\ g # h
  /\ Done(g) /\ gate[g].status = "applied"
  /\ Done(h) /\ gate[h].rollbacks > 0
  /\ p \in Range(gate[g].file_paths) /\ p \in DOMAIN gate[h].backup
  /\ gate[g].image[p] # gate[g].base[p]
  /\ TextOf(fs[p]) = gate[h].backup[p]
  /\ TextOf(fs[p]) # TextOf(gate[g].image[p])

\* C6 (SpecConc): a gate's rollback puts its snapshot over a change another
\* gate has reported "applied" only when the two invocations overlapped;
\* invocations run one after the other never reach that state.
C6_LostUpdateOnlyWhenInterleaved ==
  (\E g \in Gates, h \in Gates, p \in Paths : LostUpdate(g, h, p)) => overlapped

\* both gates took their snapshot, both appliers succeeded, one gate rolled
\* back over the change the other reported "applied"
C6_Witness_LostUpdate ==
  \E g \in Gates, h \in Gates, p \in Paths :
    /\ LostUpdate(g, h, p)
    /\ overlapped
    /\ gate[g].patch_applied /\ gate[h].patch_applied
    /\ gate[h].status = "rejected_by_toxicity"

\* C8 (SpecRollback): for any snapshot and any tree, a second _rollback
\* leaves the tree the first one left.
C8_RollbackIdempotent ==
  rb.runs >= 1 => rb.tree = rb.once

\* _rollback ran twice on a tree it had to delete from and to write to
C8_Witness_TwoRollbacks ==
  /\ rb.runs = 2
  /\ \E p \in DOMAIN rb.backup : rb.backup[p] = None
  /\ \E p \in DOMAIN rb.backup : rb.backup[p] # None /\ rb.tree[p] = WriteText(rb.backup[p])

(* ------------------------ C11 .. C14: kinds of patch --------------------- *)

\* every section of the patch creates a file ("--- /dev/null")
IsCreation(patch) ==
  patch # << >> /\ \A i \in 1..Len(patch) : patch[i].old = DevNull

\* every section of the patch deletes a file ("+++ /dev/null")
IsDeletion(patch) ==
  patch # << >> /\ \A i \in 1..Len(patch) : patch[i].new = DevNull

\* C11: a valid patch that creates a file that did not exist ends with the
\* status "applied" and the new file on disk with the patched content.
C11_CreationIsApplied ==
  \A g \in Gates :
    Done(g) /\ IsCreation(gate[g].patch) /\ gate[g].patch_applied =>
      /\ gate[g].status = "applied"
      /\ \A i \in 1..Len(gate[g].patch) : fs[gate[g].patch[i].new] = gate[g].patch[i].post

RECURSIVE TouchedInOrder(_, _)
TouchedInOrder(patch, seen) ==
  IF patch = << >> THEN << >>
  ELSE LET s == Head(patch)
           a == IF s.old # DevNull /\ s.old \notin seen THEN << s.old >> ELSE << >>
           b == IF s.new # DevNull /\ s.new \notin seen \cup {s.old}
                THEN << s.new >> ELSE << >>
       IN  a \o b \o TouchedInOrder(Tail(patch), seen \cup Names(s))

\* C13: the target list derived from a patch holds every path the patch
\* touches, each exactly once, in order of first appearance, and deriving it
\* does not raise.
C13_TargetsAreTheTouchedPaths ==
  \A g \in Gates :
    gate[g].pc # "idle" => gate[g].file_paths = TouchedInOrder(gate[g].patch, {})

C15_CheckBeforeApply ==
  /\ pt.apply_calls > 0 => pt.check_calls = 1 /\ pt.check_rc = 0
  /\ pt.check_calls > 0 /\ pt.check_rc # 0 =>
       /\ pt.apply_calls = 0
       /\ pt.tree = pt.tree0
       /\ pt.pc \in {"finally", "returned"}
       /\ pt.result = "False"
  /\ pt.pc = "returned" =>
       (pt.result = "True" <=>
          pt.check_calls = 1 /\ pt.check_rc = 0 /\ pt.apply_calls = 1 /\ pt.apply_rc = 0)

\* the check passed, the tree changed under the call, the real apply failed
\* and the call returned False
C15_Witness_ApplyFailedAfterCheck ==
  /\ pt.pc = "returned"
  /\ pt.check_rc = 0 /\ pt.apply_calls = 1 /\ pt.apply_rc # 0
  /\ pt.result = "False"

\* C16 (SpecPatcher): when the call has returned or raised, the temporary
\* patch file it created no longer exists.
C16_TempFileRemoved ==
  pt.pc \in {"returned", "raised"} => ~pt.tmp

(* -------------------- C17: a patch that breaks the syntax ---------------- *)

\* path p is a target that parsed before the application and is text that
\* does not parse after it
BrokenByPatch(g, p) ==
  /\ p \in Range(gate[g].file_paths)
  /\ gate[g].base[p] # Absent /\ Decodable(gate[g].base[p])
  /\ Parses(ReadText(gate[g].base[p]))
  /\ gate[g].image[p] # Absent /\ Decodable(gate[g].image[p])
  /\ ~Parses(ReadText(gate[g].image[p]))

\* every target file the applier left is text
TargetsAreText(g) ==
  \A q \in Range(gate[g].file_paths) :
    gate[g].image[q] = Absent \/ Decodable(gate[g].image[q])

\* C17: when a successfully applied patch of text turns a target file that
\* parsed into one that does not parse, the gate does not raise, the status
\* is "rejected_by_toxicity" and the file holds its text of before the
\* change, whatever the scores before the change.
C17_SyntaxErrorIsRejected ==
  \A g \in Gates, p \in Paths :
    gate[g].patch_applied /\ TargetsAreText(g) /\ BrokenByPatch(g, p) =>
      /\ gate[g].pc # "raised"
      /\ Done(g) =>
           /\ gate[g].status = "rejected_by_toxicity"
           /\ TextOf(fs[p]) = TextOf(gate[g].base[p])

(* ------------------------ C18 .. C20: the score -------------------------- *)

\* C18 (SpecScore): for a non-blank text that does not parse the score is
\* 2.0 * 25.0 + 0.1 * (2 * the number of raw lines), and it is not 0.
C18_UnparsablePenalty ==
  sc.calls >= 1 /\ ~IsBlank(sc.text) /\ ~Parses(sc.text) =>
    /\ sc.score = (WEIGHT_COMPLEXITY * PenaltyComplexity
                    + WEIGHT_LOC * SyntaxErrorFactor * Len(sc.text)) * ScoreDen
    /\ sc.score # 0

\* C19 (SpecScore): the score of the empty string and of every text of
\* blank lines is 0.
C19_BlankScoresZero ==
  sc.calls >= 1 /\ IsBlank(sc.text) => sc.score = 0

\* a text of several blank lines was scored
C19_Witness_BlankLines ==
  /\ sc.calls >= 1 /\ Len(sc.text) >= 2 /\ IsBlank(sc.text)
  /\ sc.score = 0

\* the function lines and the method lines of a text
FunctionCount(text) == CountTok(text, {"def"})
MethodCount(text) == CountTok(text, {"method"})

\* C20 (SpecScore): for a non-blank text that parses the score is
\* 2.0 * A + 0.1 * L, with L the logical lines and A the mean complexity over
\* the top-level functions and the class methods together, 1.0 when there is
\* neither; it is not negative and a second call on the text returns it again.
C20_WeightedSum ==
  sc.calls >= 1 /\ ~IsBlank(sc.text) /\ Parses(sc.text) =>
    LET n == FunctionCount(sc.text) + MethodCount(sc.text)
        total == n + BranchesInBlocks(sc.text, FALSE)
        loc == Lloc(sc.text)
    IN  /\ n = 0 => sc.score = (WEIGHT_COMPLEXITY * DefaultComplexity + WEIGHT_LOC * loc) * ScoreDen
        /\ n > 0 => sc.score * n = (WEIGHT_COMPLEXITY * total + WEIGHT_LOC * loc * n) * ScoreDen
        /\ sc.score >= 0
        /\ sc.score = sc.first

\* a text with a function and a method, both in the mean, was
\* scored twice
C20_Witness_FunctionAndMethod ==
  /\ sc.calls = 2 /\ Parses(sc.text)
  /\ FunctionCount(sc.text) = 1 /\ MethodCount(sc.text) = 1
  /\ sc.score > 0 /\ sc.score = sc.first


(* ------------------- C21 .. C25: apply_code_patch ------------------------ *)

\* the diff holds each marker once, header, separator, end marker in order
WellFormed(diff) ==
  /\ \A m \in Markers : CountOf(diff, m) = 1
  /\ IndexOf(diff, HEADER_SEARCH, 1) < IndexOf(diff, SEPARATOR, 1)
  /\ IndexOf(diff, SEPARATOR, 1) < IndexOf(diff, HEADER_REPLACE, 1)

\* the blocks of a well-formed diff, read off the positions of its markers
SearchOf(diff) ==
  Strip(SubSeq(diff, IndexOf(diff, HEADER_SEARCH, 1) + 1, IndexOf(diff, SEPARATOR, 1) - 1))

ReplacementOf(diff) ==
  Strip(SubSeq(diff, IndexOf(diff, SEPARATOR, 1) + 1, IndexOf(diff, HEADER_REPLACE, 1) - 1))

\* the indices of content the block stands at
Occurrences(content, block) ==
  {i \in 1..Len(content) : MatchesAt(content, block, i)}

\* C21 (SpecHands): with a well-formed diff whose non-empty search block
\* occurs in the file, the call returns True and the file is its old content
\* with the first occurrence of the search block, and nothing else, replaced
\* by the replacement block; an empty replacement removes the matched text.
C21_FirstOccurrenceReplaced ==
  hd.calls = 1 /\ WellFormed(hd.diff) /\ SearchOf(hd.diff) # << >>
    /\ Occurrences(hd.file0, SearchOf(hd.diff)) # {} =>
      /\ hd.result = "True"
      /\ \E i \in Occurrences(hd.file0, SearchOf(hd.diff)) :
           /\ \A j \in Occurrences(hd.file0, SearchOf(hd.diff)) : i <= j
           /\ hd.file = SubSeq(hd.file0, 1, i - 1) \o ReplacementOf(hd.diff)
                          \o SubSeq(hd.file0, i + Len(SearchOf(hd.diff)), Len(hd.file0))

\* the search block stood twice in the file, the replacement block was
\* empty: the first occurrence is gone, the second is still there
C21_Witness_FirstOfTwoRemoved ==
  /\ hd.calls = 1 /\ WellFormed(hd.diff) /\ hd.result = "True"
  /\ Cardinality(Occurrences(hd.file0, SearchOf(hd.diff))) = 2
  /\ ReplacementOf(hd.diff) = << >>
  /\ Len(hd.file) = Len(hd.file0) - Len(SearchOf(hd.diff))
  /\ Occurrences(hd.file, SearchOf(hd.diff)) # {}

\* C22 (SpecHands): with a well-formed diff whose non-empty search block is
\* not an exact substring of the file, the call returns False and the file is
\* unchanged.
C22_SearchNotFound ==
  hd.calls = 1 /\ WellFormed(hd.diff) /\ SearchOf(hd.diff) # << >>
    /\ Occurrences(hd.file0, SearchOf(hd.diff)) = {} =>
      hd.result = "False" /\ hd.file = hd.file0

\* the file holds the first piece of a two-piece search block, not the block
C22_Witness_PartOfBlockOnly ==
  /\ hd.calls = 1 /\ WellFormed(hd.diff) /\ hd.result = "False"
  /\ Len(SearchOf(hd.diff)) = 2
  /\ Occurrences(hd.file0, << SearchOf(hd.diff)[1] >>) # {}
  /\ Occurrences(hd.file0, SearchOf(hd.diff)) = {}
  /\ hd.file = hd.file0

\* the call raised an error, one for each cause
Raised(result) == result \in {"HeaderNotFound", "SeparatorNotFound", "Malformed"}

\* C23 (SpecHands), as stated: any diff text without the header, or without
\* the separator, makes the call raise the error naming the missing marker,
\* not return False, and the file is unchanged.
C23_MissingMarkerRaises ==
  hd.calls = 1
    /\ (CountOf(hd.diff, HEADER_SEARCH) = 0 \/ CountOf(hd.diff, SEPARATOR) = 0) =>
      /\ hd.result \in {"HeaderNotFound", "SeparatorNotFound"}
      /\ hd.result = "HeaderNotFound" => CountOf(hd.diff, HEADER_SEARCH) = 0
      /\ hd.result = "SeparatorNotFound" => CountOf(hd.diff, SEPARATOR) = 0
      /\ hd.file = hd.file0

\* C23 (SpecHands), amended: any diff text other than the empty string that
\* has no header, or no separator, makes the call raise the error naming the
\* missing marker, and the file is unchanged.
C23_MissingMarkerRaisesUnlessEmpty ==
  hd.calls = 1 /\ hd.diff # << >>
    /\ (CountOf(hd.diff, HEADER_SEARCH) = 0 \/ CountOf(hd.diff, SEPARATOR) = 0) =>
      /\ hd.result \in {"HeaderNotFound", "SeparatorNotFound"}
      /\ hd.result = "HeaderNotFound" => CountOf(hd.diff, HEADER_SEARCH) = 0
      /\ hd.result = "SeparatorNotFound" => CountOf(hd.diff, SEPARATOR) = 0
      /\ hd.file = hd.file0

\* a diff with its header and its end marker and no separator raised the
\* separator's error over a file that holds the search text
C23_Witness_NoSeparator ==
  /\ hd.calls = 1 /\ hd.result = "SeparatorNotFound"
  /\ CountOf(hd.diff, HEADER_SEARCH) = 1 /\ CountOf(hd.diff, HEADER_REPLACE) = 1
  /\ hd.diff[1] = HEADER_SEARCH
  /\ hd.file0 # << >> /\ hd.file = hd.file0

\* C24 (SpecHands): with an empty search block the call returns False and
\* leaves a non-empty file unchanged, and writes the replacement block as the
\* whole content of an empty file and returns True.
C24_EmptySearchBlock ==
  hd.calls = 1 /\ WellFormed(hd.diff) /\ SearchOf(hd.diff) = << >> =>
    /\ hd.file0 # << >> => hd.result = "False" /\ hd.file = hd.file0
    /\ hd.file0 = << >> => hd.result = "True" /\ hd.file = ReplacementOf(hd.diff)

\* an insertion was refused on a file with content
C24_Witness_InsertionRefused ==
  /\ hd.calls = 1 /\ WellFormed(hd.diff) /\ SearchOf(hd.diff) = << >>
  /\ ReplacementOf(hd.diff) # << >>
  /\ hd.file0 # << >> /\ hd.result = "False" /\ hd.file = hd.file0

\* C25 (SpecHands): with the empty diff string the call returns False, does
\* not raise, and leaves the file unchanged.
C25_EmptyDiffReturnsFalse ==
  hd.calls = 1 /\ hd.diff = << >> => hd.result = "False" /\ hd.file = hd.file0

\* the empty diff was handed in for a file with content
C25_Witness_EmptyDiff ==
  /\ hd.calls = 1 /\ hd.diff = << >> /\ hd.file0 # << >>
  /\ hd.result = "False" /\ hd.file = hd.file0

(* ------------------ C26: calculate_architectural_hops -------------------- *)

Edges(graph, node) == Range(Neighbours(graph, node))

\* the nodes at the end of a walk of exactly k edges from node
RECURSIVE WalkEnds(_, _, _)
WalkEnds(graph, node, k) ==
  IF k = 0 THEN {node}
  ELSE UNION {Edges(graph, n) : n \in WalkEnds(graph, node, k - 1)}

Reachable(graph, s, e) == \E k \in 0..MaxNode : e \in WalkEnds(graph, s, k)

ShortestPath(graph, s, e) ==
  CHOOSE k \in 0..MaxNode :
    /\ e \in WalkEnds(graph, s, k)
    /\ \A j \in 0..(k - 1) : e \notin WalkEnds(graph, s, j)

\* C26: the call raises ValueError whenever start or end is not a node of
\* the graph; between two nodes of the graph it returns 0 when they are the
\* same node, -1 when the end cannot be reached from the start, and
\* otherwise the number of edges of a shortest path along the adjacency lists.
C26_HopsOrValueError ==
  bf.calls = 1 =>
    LET graph == bf.graph
        s == bf.start_node
        e == bf.end_node
    IN  IF s \notin DOMAIN graph \/ e \notin DOMAIN graph
        THEN bf.result.kind = "ValueError"
        ELSE /\ bf.result.kind = "return"
             /\ s = e => bf.result.value = 0
             /\ ~Reachable(graph, s, e) => bf.result.value = -1
             /\ Reachable(graph, s, e) => bf.result.value = ShortestPath(graph, s, e)

\* C26 as the code has it: the call returns 0 when start and end are the
\* same identifier, a node of the graph or not; for two different
\* identifiers it raises ValueError whenever one of them is not a node of the
\* graph, naming the start if that is missing and the end otherwise, and
\* else returns -1 when the end cannot be reached from the start and the
\* number of edges of a shortest path along the adjacency lists when it can.
C26_HopsOrValueErrorUnlessSame ==
  bf.calls = 1 =>
    LET graph == bf.graph
        s == bf.start_node
        e == bf.end_node
    IN  IF s = e THEN bf.result.kind = "return" /\ bf.result.value = 0
        ELSE IF s \notin DOMAIN graph \/ e \notin DOMAIN graph
        THEN /\ bf.result.kind = "ValueError"
             /\ bf.result.node = (IF s \notin DOMAIN graph THEN s ELSE e)
        ELSE /\ bf.result.kind = "return"
             /\ ~Reachable(graph, s, e) => bf.result.value = -1
             /\ Reachable(graph, s, e) => bf.result.value = ShortestPath(graph, s, e)

\* a path of two edges was found in a graph whose middle node leads back to
\* the start as well
C26_Witness_TwoHops ==
  /\ bf.calls = 1
  /\ bf.result.kind = "return"
  /\ bf.result.value = 2
  /\ \E n \in Edges(bf.graph, bf.start_node) :
       {bf.start_node, bf.end_node} \subseteq Edges(bf.graph, n)

(* ------------------- C27: the steps of one invocation -------------------- *)

\* the six steps in the order of the source
StepOrder == << "parse", "snapshot", "apply", "post-score", "decide", "emit" >>

\* steps holds some of the six steps, each at most once, in that order
InStepOrder(steps) ==
  \E pick \in SUBSET (1..Len(StepOrder)) :
    /\ Cardinality(pick) = Len(steps)
    /\ \A i \in 1..Len(steps) :
         \E k \in pick : /\ steps[i] = StepOrder[k]
                         /\ Cardinality({j \in pick : j < k}) = i - 1

StepsInOrder ==
  /\ InStepOrder(gate[1].steps)
  /\ gate[1].applier_calls <= 1
  /\ Done(1) =>
       /\ gate[1].applier_calls = 1
       /\ gate[1].status \in {"applied", "rejected_by_git", "rejected_by_toxicity"}
       /\ Len(gate[1].events) = 1
       /\ gate[1].steps[Len(gate[1].steps)] = "emit"
       /\ ~gate[1].patch_applied => gate[1].status = "rejected_by_git"

\* C27: with both runs of git returning and no read or write raising, an
\* invocation takes the steps parse, snapshot and pre-score, apply,
\* post-score, decide, emit in that order and each at most once, calls the
\* applier exactly once, a failed application not being tried again, and in
\* the end reports exactly one of the three statuses.
C27_StepsOnceInOrderToOneStatus ==
  /\ []StepsInOrder
  /\ (gate[1].pc = "snapshotted") ~> (Done(1) \/ gate[1].pc = "raised")

\* an invocation whose application failed ended after one call of the applier
C27_Witness_FailedOnceAndEnded ==
  /\ Done(1)
  /\ ~gate[1].patch_applied
  /\ gate[1].applier_calls = 1
  /\ gate[1].steps = << "parse", "snapshot", "apply", "decide", "emit" >>

(* ------------------ C28: the filesystem refuses ------------------------- *)

\* C28: when reading a file for the snapshot or restoring one in _rollback
\* raises a filesystem error, the invocation ends with that exception: the
\* gate goes on to no further step, builds no event and sets no status, and
\* nothing but the return to the caller follows.
C28_FilesystemErrorPropagates ==
  /\ [](gate[1].fault # "none" =>
          /\ gate[1].pc = "raised"
          /\ gate[1].events = << >>
          /\ gate[1].status = "none")
  /\ [][gate[1].fault # "none" => (gate'[1] = IdleGate /\ fs' = fs)]_vars

\* _rollback raised at its second file: the first is restored, the second
\* still holds what the patch made of it
C28_Witness_RollbackHalfDone ==
  /\ gate[1].fault = "rollback"
  /\ gate[1].pc = "raised"
  /\ \E p \in Paths, q \in Paths :
       /\ gate[1].image[p] # gate[1].base[p] /\ fs[p] = gate[1].base[p]
       /\ gate[1].image[q] # gate[1].base[q] /\ fs[q] = gate[1].image[q]

(* ------------------ C29: files created by the patch ---------------------- *)

\* every target path was absent when the invocation began
TargetsWereAbsent(g) ==
  \A p \in Range(gate[g].file_paths) : gate[g].base[p] = Absent

\* the applier left a target file that is not blank
CreatedNonBlank(g) ==
  /\ gate[g].patch_applied
  /\ \E p \in Range(gate[g].file_paths) :
       /\ gate[g].image[p] # Absent
       /\ ~IsBlank(ReadText(gate[g].image[p]))

\* C29: when every target path is absent before the application and the
\* applied patch leaves one of them present with content that is not blank,
\* the invocation ends rejected_by_toxicity with every target path absent
\* again: it neither raises nor reports another status.
C29_CreationIsRejected ==
  (TargetsWereAbsent(1) /\ CreatedNonBlank(1)) =>
    /\ gate[1].pc # "raised"
    /\ Done(1) =>
         /\ gate[1].status = "rejected_by_toxicity"
         /\ gate[1].pre_toxicity = 0
         /\ \A p \in Range(gate[1].file_paths) : fs[p] = Absent

(* ------------------ C30: the toxicity an invocation leaves --------------- *)

\* every target file now on disk can be read
TargetsReadable(g) ==
  \A p \in Range(gate[g].file_paths) : fs[p] = Absent \/ Decodable(fs[p])

\* the summed toxicity of the target files of the invocation as they are now
ToxicityLeft(g) == ToxicityOfPaths(fs, Range(gate[g].file_paths))

\* C30: in any run of invocations one after the other, an invocation that
\* has returned its event leaves target files whose summed toxicity is not
\* above the pre_toxicity it measured: it is the post_toxicity, itself not
\* above pre_toxicity, when the status is applied, and the pre_toxicity when
\* the status is rejected_by_git or rejected_by_toxicity.
C30_ToxicityNeverRises ==
  Done(1) =>
    /\ TargetsReadable(1)
    /\ ToxicityLeft(1) <= gate[1].pre_toxicity
    /\ gate[1].status = "applied" =>
         /\ ToxicityLeft(1) = gate[1].post_toxicity
         /\ gate[1].post_toxicity <= gate[1].pre_toxicity
    /\ Rejected(1) => ToxicityLeft(1) = gate[1].pre_toxicity

\* the second invocation of a run was rejected for a file the first had
\* changed, and what it had scored higher is gone
C30_Witness_SecondRejected ==
  /\ Done(1)
  /\ gate[1].command_id = 2
  /\ gate[1].status = "rejected_by_toxicity"
  /\ gate[1].pre_toxicity > 0
  /\ gate[1].post_toxicity > gate[1].pre_toxicity
  /\ \E p \in Range(gate[1].file_paths) : gate[1].image[p] # fs[p]

====
